---- MODULE Spec2Model ----
(***************************************************************************)
(* Request handlers of the blogicum blog application                       *)
(* (blogicum/blog/views.py, routed by blogicum/blog/urls.py) as a state     *)
(* machine over the relational store: categories, posts and comments.      *)
(* One action per view; the response of the last request is kept in resp.  *)
(***************************************************************************)
EXTENDS Integers, Sequences, FiniteSets

\* ------------------------------------------------------------------ bounds
MaxPosts == 1
MaxComments == 2
MaxTime == 1
\* comments in the mutation specification
MaxThread == 1

\* views.py:24
paginate_by == 10

\* ---------------------------------------------------------------- domains
Users == {"alice", "bob"}
AnonymousUser == "anonymous"
Requesters == Users \cup {AnonymousUser}
\* usernames a profile route can carry: the registered ones and an unknown one
Usernames == Users \cup {"nobody"}
Slugs == {"c1", "c2"}
\* slugs a category route can carry: the stored ones and an unknown one
RouteSlugs == Slugs \cup {"nope"}
Titles == {"T1", "T2"}
Texts == {"a", "b"}
Methods == {"GET", "POST"}
Times == 0..MaxTime
\* ids a route can carry: every id ever assigned and one never assigned
RoutePostIds == 1..(MaxPosts + 1)
RouteCommentIds(limit) == 1..(limit + 1)

VARIABLES categories, posts, nextPostId, comments, nextCommentId, now, resp

vars == <<categories, posts, nextPostId, comments, nextCommentId, now, resp>>
store == <<categories, posts, nextPostId, comments, nextCommentId>>

\* The fields a post form submits.
PostForms == [category : Slugs, is_published : BOOLEAN, pub_date : Times]

\* ----------------------------------------------------------------- urls.py
NoLocation == [route |-> "", post_id |-> 0, username |-> ""]
LoginUrl == [route |-> "login", post_id |-> 0, username |-> ""]

\* The keyword each named route captures from its path.
RouteKwarg(route) ==
    CASE route = "post_detail" -> "post_id"
      [] route = "add_comment" -> "post_id"
      [] route = "delete_post" -> "post_id"
      [] route = "edit_post" -> "post_id"
      [] route = "profile" -> "username"
      [] route = "category_posts" -> "category"
      [] OTHER -> ""

Url(route, val) ==
    IF RouteKwarg(route) = "username"
    THEN [route |-> route, post_id |-> 0, username |-> val]
    ELSE [route |-> route, post_id |-> val, username |-> ""]

\* reverse(name, kwargs={kw: val}): the keyword must be the one the route captures.
ReverseKwargs(route, kw, val) ==
    IF RouteKwarg(route) = kw
    THEN [ok |-> TRUE, url |-> Url(route, val)]
    ELSE [ok |-> FALSE, url |-> NoLocation]

\* reverse(name, args=[val]): one positional argument fills the one captured group.
ReverseArgs(route, val) ==
    IF RouteKwarg(route) # ""
    THEN [ok |-> TRUE, url |-> Url(route, val)]
    ELSE [ok |-> FALSE, url |-> NoLocation]

\* ---------------------------------------------------------------- responses
Response(view, user, pk, ck, name, status, items, location) ==
    [view |-> view, user |-> user, pk |-> pk, ck |-> ck, name |-> name,
     status |-> status, items |-> items, location |-> location]

NoResponse == Response("", "", 0, 0, "", "", <<>>, NoLocation)

Ok(view, user, pk, ck, name, items) ==
    Response(view, user, pk, ck, name, "ok", items, NoLocation)

NotFound(view, user, pk, ck, name) ==
    Response(view, user, pk, ck, name, "not_found", <<>>, NoLocation)

\* redirect(...) / HttpResponseRedirect(success_url): a failed reverse raises
\* NoReverseMatch, which the framework answers with a server error.
Redirect(view, user, pk, ck, rev) ==
    IF rev.ok
    THEN Response(view, user, pk, ck, "", "redirect", <<>>, rev.url)
    ELSE Response(view, user, pk, ck, "", "error", <<>>, NoLocation)

\* LoginRequiredMixin.handle_no_permission for an unauthenticated user
RedirectToLogin(view, user, pk, ck) ==
    Response(view, user, pk, ck, "", "redirect", <<>>, LoginUrl)

is_authenticated(user) == user \in Users

\* ------------------------------------------------------------------ queries
\* Sequences over S without repetition that enumerate S.
Enumerations(S) ==
    {s \in [1..Cardinality(S) -> S] : \A i, j \in 1..Cardinality(S) : s[i] = s[j] => i = j}

\* order_by('-pub_date'): any order the database may return, ties unordered.
OrderByPubDateDesc(S) ==
    {s \in Enumerations(S) :
        \A i, j \in 1..Len(s) : i < j => posts[s[i]].pub_date >= posts[s[j]].pub_date}

\* paginate_by: the first page of a listing
FirstPage(s) == SubSeq(s, 1, IF Len(s) < paginate_by THEN Len(s) ELSE paginate_by)

\* post_filter with the is_published condition left out
post_filter_AnyFlag ==
    {p \in DOMAIN posts :
        /\ posts[p].pub_date < now
        /\ categories[posts[p].category].is_published}

post_filter ==
    {p \in DOMAIN posts :
        /\ posts[p].pub_date < now
        /\ posts[p].is_published
        /\ categories[posts[p].category].is_published}

ProfileQuerySet(user, author) ==
    IF user = author
    THEN {p \in DOMAIN posts : posts[p].author = author}
    ELSE {p \in DOMAIN posts :
            /\ posts[p].author = author
            /\ posts[p].is_published
            /\ posts[p].pub_date < now
            /\ categories[posts[p].category].is_published}

CategoryQuerySet(slug) ==
    {p \in post_filter : categories[posts[p].category].title = categories[slug].title}

\* has_access comparing the publication date strictly
has_access_StrictDate(user, p) ==
    \/ posts[p].author = user
    \/ /\ posts[p].is_published
       /\ categories[posts[p].category].is_published
       /\ posts[p].pub_date < now

has_access(user, p) ==
    \/ posts[p].author = user
    \/ /\ posts[p].is_published
       /\ categories[posts[p].category].is_published
       /\ posts[p].pub_date <= now

\* post.comments: the comments of a post in creation order (ids are assigned
\* in creation order).
RECURSIVE SortedSeq(_)
SortedSeq(S) ==
    IF S = {} THEN <<>>
    ELSE LET m == CHOOSE x \in S : \A y \in S : x <= y
         IN <<m>> \o SortedSeq(S \ {m})

PostComments(p) == SortedSeq({c \in DOMAIN comments : comments[c].current_post = p})

\* on_delete=CASCADE of Comment's post reference
CascadeComments(p) ==
    [c \in {d \in DOMAIN comments : comments[d].current_post # p} |-> comments[c]]

\* -------------------------------------------------------------------- Init
EmptyStore ==
    /\ posts = <<>>
    /\ nextPostId = 1
    /\ comments = <<>>
    /\ nextCommentId = 1

\* ------------------------------------------------------------- read views
BlogListView(user) ==
    /\ \E s \in OrderByPubDateDesc(post_filter) :
          resp' = Ok("index", user, 0, 0, "", FirstPage(s))
    /\ UNCHANGED <<store, now>>

ProfileListView(user, username) ==
    /\ IF username \notin Users
       THEN resp' = NotFound("profile", user, 0, 0, username)
       ELSE \E s \in OrderByPubDateDesc(ProfileQuerySet(user, username)) :
               resp' = Ok("profile", user, 0, 0, username, FirstPage(s))
    /\ UNCHANGED <<store, now>>

\* CategoryListView filtering by the slug without looking the category up
CategoryListView_NoLookup(user, slug) ==
    /\ IF slug \notin Slugs
       THEN resp' = Ok("category_posts", user, 0, 0, slug, <<>>)
       ELSE IF ~categories[slug].is_published
       THEN resp' = NotFound("category_posts", user, 0, 0, slug)
       ELSE \E s \in OrderByPubDateDesc(CategoryQuerySet(slug)) :
               resp' = Ok("category_posts", user, 0, 0, slug, FirstPage(s))
    /\ UNCHANGED <<store, now>>

CategoryListView(user, slug) ==
    /\ IF slug \notin Slugs \/ ~categories[slug].is_published
       THEN resp' = NotFound("category_posts", user, 0, 0, slug)
       ELSE \E s \in OrderByPubDateDesc(CategoryQuerySet(slug)) :
               resp' = Ok("category_posts", user, 0, 0, slug, FirstPage(s))
    /\ UNCHANGED <<store, now>>

PostDetailView(user, post_id) ==
    /\ IF post_id \notin DOMAIN posts
       THEN resp' = NotFound("post_detail", user, post_id, 0, "")
       ELSE IF ~has_access(user, post_id)
       THEN resp' = NotFound("post_detail", user, post_id, 0, "")
       ELSE resp' = Ok("post_detail", user, post_id, 0, "", PostComments(post_id))
    /\ UNCHANGED <<store, now>>

\* timezone.now() advances between requests
Tick ==
    /\ now < MaxTime
    /\ now' = now + 1
    /\ resp' = NoResponse
    /\ UNCHANGED store

\* ------------------------------------------------------------ write views
\* The store with one more row / one row replaced / one row removed.
Insert(table, id, row) == [k \in DOMAIN table \cup {id} |-> IF k = id THEN row ELSE table[k]]
Remove(table, id) == [k \in DOMAIN table \ {id} |-> table[k]]

PostCreateView(user, method, valid, form) ==
    /\ IF ~is_authenticated(user)
       THEN /\ resp' = RedirectToLogin("create_post", user, 0, 0)
            /\ UNCHANGED store
       ELSE IF method = "GET" \/ ~valid
       THEN /\ resp' = Ok("create_post", user, 0, 0, "", <<>>)
            /\ UNCHANGED store
       ELSE /\ posts' = Insert(posts, nextPostId,
                           [author |-> user, category |-> form.category,
                            is_published |-> form.is_published,
                            pub_date |-> form.pub_date])
            /\ nextPostId' = nextPostId + 1
            /\ resp' = Redirect("create_post", user, nextPostId, 0,
                                ReverseArgs("profile", user))
            /\ UNCHANGED <<categories, comments, nextCommentId>>
    /\ UNCHANGED now

\* dispatch looks the post up and compares its author before the login check
\* of LoginRequiredMixin runs, so the anonymous user takes the same branch as
\* any other user who is not the author.
PostUpdateView(user, post_id, method, valid, form) ==
    /\ IF post_id \notin DOMAIN posts
       THEN /\ resp' = NotFound("edit_post", user, post_id, 0, "")
            /\ UNCHANGED store
       ELSE IF posts[post_id].author # user
       THEN /\ resp' = Redirect("edit_post", user, post_id, 0,
                                ReverseKwargs("post_detail", "pk", post_id))
            /\ UNCHANGED store
       ELSE IF method = "GET" \/ ~valid
       THEN /\ resp' = Ok("edit_post", user, post_id, 0, "", <<>>)
            /\ UNCHANGED store
       ELSE /\ posts' = [posts EXCEPT ![post_id] =
                           [author |-> @.author, category |-> form.category,
                            is_published |-> form.is_published,
                            pub_date |-> form.pub_date]]
            /\ resp' = Redirect("edit_post", user, post_id, 0,
                                ReverseArgs("post_detail", post_id))
            /\ UNCHANGED <<categories, nextPostId, comments, nextCommentId>>
    /\ UNCHANGED now

\* DeleteView: a GET renders the confirmation page, a POST deletes the post and,
\* with it, its comments.
PostDeleteView(user, post_id, method) ==
    /\ IF post_id \notin DOMAIN posts
       THEN /\ resp' = NotFound("delete_post", user, post_id, 0, "")
            /\ UNCHANGED store
       ELSE IF posts[post_id].author # user
       THEN /\ resp' = Redirect("delete_post", user, post_id, 0,
                                ReverseKwargs("post_detail", "pk", post_id))
            /\ UNCHANGED store
       ELSE IF method = "GET"
       THEN /\ resp' = Ok("delete_post", user, post_id, 0, "", <<>>)
            /\ UNCHANGED store
       ELSE /\ posts' = Remove(posts, post_id)
            /\ comments' = CascadeComments(post_id)
            /\ resp' = Redirect("delete_post", user, post_id, 0,
                                ReverseArgs("profile", user))
            /\ UNCHANGED <<categories, nextPostId, nextCommentId>>
    /\ UNCHANGED now

\* CommentCreateView taking the comment's author from the post
CommentCreateView_PostAuthor(user, post_id, method, valid, text) ==
    /\ IF post_id \notin DOMAIN posts
       THEN /\ resp' = NotFound("add_comment", user, post_id, 0, "")
            /\ UNCHANGED store
       ELSE IF ~is_authenticated(user)
       THEN /\ resp' = RedirectToLogin("add_comment", user, post_id, 0)
            /\ UNCHANGED store
       ELSE IF method = "GET" \/ ~valid
       THEN /\ resp' = Ok("add_comment", user, post_id, 0, "", <<>>)
            /\ UNCHANGED store
       ELSE /\ comments' = Insert(comments, nextCommentId,
                              [author |-> posts[post_id].author,
                               current_post |-> post_id, text |-> text])
            /\ nextCommentId' = nextCommentId + 1
            /\ resp' = Redirect("add_comment", user, post_id, nextCommentId,
                                ReverseKwargs("post_detail", "post_id", post_id))
            /\ UNCHANGED <<categories, posts, nextPostId>>
    /\ UNCHANGED now

CommentCreateView(user, post_id, method, valid, text) ==
    /\ IF post_id \notin DOMAIN posts
       THEN /\ resp' = NotFound("add_comment", user, post_id, 0, "")
            /\ UNCHANGED store
       ELSE IF ~is_authenticated(user)
       THEN /\ resp' = RedirectToLogin("add_comment", user, post_id, 0)
            /\ UNCHANGED store
       ELSE IF method = "GET" \/ ~valid
       THEN /\ resp' = Ok("add_comment", user, post_id, 0, "", <<>>)
            /\ UNCHANGED store
       ELSE /\ comments' = Insert(comments, nextCommentId,
                              [author |-> user, current_post |-> post_id,
                               text |-> text])
            /\ nextCommentId' = nextCommentId + 1
            /\ resp' = Redirect("add_comment", user, post_id, nextCommentId,
                                ReverseKwargs("post_detail", "post_id", post_id))
            /\ UNCHANGED <<categories, posts, nextPostId>>
    /\ UNCHANGED now

CommentUpdateView(user, post_id, comment_id, method, valid, text) ==
    /\ IF comment_id \notin DOMAIN comments
       THEN /\ resp' = NotFound("edit_comment", user, post_id, comment_id, "")
            /\ UNCHANGED store
       ELSE IF comments[comment_id].author # user
       THEN /\ resp' = Redirect("edit_comment", user, post_id, comment_id,
                                ReverseKwargs("post_detail", "pk", post_id))
            /\ UNCHANGED store
       ELSE IF method = "GET" \/ ~valid
       THEN /\ resp' = Ok("edit_comment", user, post_id, comment_id, "", <<>>)
            /\ UNCHANGED store
       ELSE /\ comments' = [comments EXCEPT ![comment_id].text = text]
            /\ resp' = Redirect("edit_comment", user, post_id, comment_id,
                                ReverseArgs("post_detail", post_id))
            /\ UNCHANGED <<categories, posts, nextPostId, nextCommentId>>
    /\ UNCHANGED now

\* CommentDeleteView without the author comparison of dispatch
CommentDeleteView_NoGuard(user, post_id, comment_id, method) ==
    /\ IF comment_id \notin DOMAIN comments
       THEN /\ resp' = NotFound("delete_comment", user, post_id, comment_id, "")
            /\ UNCHANGED store
       ELSE IF ~is_authenticated(user)
       THEN /\ resp' = RedirectToLogin("delete_comment", user, post_id, comment_id)
            /\ UNCHANGED store
       ELSE IF method = "GET"
       THEN /\ resp' = Ok("delete_comment", user, post_id, comment_id, "", <<>>)
            /\ UNCHANGED store
       ELSE /\ comments' = Remove(comments, comment_id)
            /\ resp' = Redirect("delete_comment", user, post_id, comment_id,
                                ReverseArgs("post_detail", post_id))
            /\ UNCHANGED <<categories, posts, nextPostId, nextCommentId>>
    /\ UNCHANGED now

CommentDeleteView(user, post_id, comment_id, method) ==
    /\ IF comment_id \notin DOMAIN comments
       THEN /\ resp' = NotFound("delete_comment", user, post_id, comment_id, "")
            /\ UNCHANGED store
       ELSE IF comments[comment_id].author # user
       THEN /\ resp' = Redirect("delete_comment", user, post_id, comment_id,
                                ReverseKwargs("post_detail", "pk", post_id))
            /\ UNCHANGED store
       ELSE IF method = "GET"
       THEN /\ resp' = Ok("delete_comment", user, post_id, comment_id, "", <<>>)
            /\ UNCHANGED store
       ELSE /\ comments' = Remove(comments, comment_id)
            /\ resp' = Redirect("delete_comment", user, post_id, comment_id,
                                ReverseArgs("post_detail", post_id))
            /\ UNCHANGED <<categories, posts, nextPostId, nextCommentId>>
    /\ UNCHANGED now

\* ------------------------------------------------------------------- specs
\* Categories are managed outside the views: any assignment of titles and flags
\* in which the first category is published.
CategoryTables ==
    {t \in [Slugs -> [title : Titles, is_published : BOOLEAN]] :
        t["c1"] = [title |-> "T1", is_published |-> TRUE]}

\* What a request submits: a GET, a POST the form rejects, a POST of valid data.
Submissions(data) ==
    {[method |-> "GET", valid |-> FALSE, data |-> d] : d \in {CHOOSE x \in data : TRUE}}
    \cup {[method |-> "POST", valid |-> FALSE, data |-> d] : d \in {CHOOSE x \in data : TRUE}}
    \cup {[method |-> "POST", valid |-> TRUE, data |-> d] : d \in data}

\* Post forms that leave the category and the publication date at one value.
FlagForms == {f \in PostForms : f.category = "c1" /\ f.pub_date = 0}

Init ==
    /\ categories \in CategoryTables
    /\ EmptyStore
    /\ now = 0
    /\ resp = NoResponse

Listings ==
    \/ \E u \in Requesters : BlogListView(u)
    \/ \E u \in Requesters, n \in Usernames : ProfileListView(u, n)
    \/ \E u \in Requesters, c \in RouteSlugs : CategoryListView(u, c)

Details == \E u \in Requesters, p \in RoutePostIds : PostDetailView(u, p)

PostCreates(forms) ==
    /\ nextPostId <= MaxPosts
    /\ \E u \in Requesters, s \in Submissions(forms) :
          PostCreateView(u, s.method, s.valid, s.data)

PostChanges(forms) ==
    \/ \E u \in Requesters, p \in RoutePostIds, s \in Submissions(forms) :
          PostUpdateView(u, p, s.method, s.valid, s.data)
    \/ \E u \in Requesters, p \in RoutePostIds, m \in Methods : PostDeleteView(u, p, m)

CommentCreates(limit) ==
    /\ nextCommentId <= limit
    /\ \E u \in Requesters, p \in RoutePostIds, s \in Submissions(Texts) :
          CommentCreateView(u, p, s.method, s.valid, s.data)

CommentChanges(limit) ==
    \/ \E u \in Requesters, p \in RoutePostIds, c \in RouteCommentIds(limit),
          s \in Submissions(Texts) :
          CommentUpdateView(u, p, c, s.method, s.valid, s.data)
    \/ \E u \in Requesters, p \in RoutePostIds, c \in RouteCommentIds(limit),
          m \in Methods :
          CommentDeleteView(u, p, c, m)

\* The post id a comment route is built with on the post's own page: the
\* comment's post, or any id when the comment is not stored.
OwnRoutePostIds(c) ==
    IF c \in DOMAIN comments THEN {comments[c].current_post} ELSE RoutePostIds

CommentChangesUnderPost(limit) ==
    \/ \E u \in Requesters, c \in RouteCommentIds(limit), s \in Submissions(Texts) :
          \E p \in OwnRoutePostIds(c) :
             CommentUpdateView(u, p, c, s.method, s.valid, s.data)
    \/ \E u \in Requesters, c \in RouteCommentIds(limit), m \in Methods :
          \E p \in OwnRoutePostIds(c) :
             CommentDeleteView(u, p, c, m)

\* The whole application.
Next ==
    \/ Listings
    \/ Details
    \/ PostCreates(PostForms)
    \/ PostChanges(PostForms)
    \/ CommentCreates(MaxComments)
    \/ CommentChanges(MaxComments)
    \/ Tick

Spec == Init /\ [][Next]_vars

\* Reading: posts are created with any form, time passes, every read view is asked.
NextBlog ==
    \/ Listings
    \/ Details
    \/ PostCreates(PostForms)
    \/ Tick

SpecBlog == Init /\ [][NextBlog]_vars

\* One table of categories, for the views that never read a category's title.
InitFlat ==
    /\ categories = [s \in Slugs |-> [title |-> "T1", is_published |-> TRUE]]
    /\ EmptyStore
    /\ now = 0
    /\ resp = NoResponse

\* Commenting: posts are created published or not, comments are added and read.
NextComment ==
    \/ Details
    \/ PostCreates(FlagForms)
    \/ CommentCreates(MaxComments)

SpecComment == InitFlat /\ [][NextComment]_vars

\* Mutation: every create, update and delete view, by every requester.
NextGuard ==
    \/ PostCreates(FlagForms)
    \/ PostChanges(FlagForms)
    \/ CommentCreates(MaxThread)
    \/ CommentChanges(MaxThread)

SpecGuard == InitFlat /\ [][NextGuard]_vars

\* Mutation, the comment routes built with the comment's own post.
NextOwner ==
    \/ PostCreates(FlagForms)
    \/ PostChanges(FlagForms)
    \/ CommentCreates(MaxThread)
    \/ CommentChangesUnderPost(MaxThread)

SpecOwner == InitFlat /\ [][NextOwner]_vars

\* ------------------------------------------------------------- properties
\* The visibility conjunction: the post is published, its category is
\* published and its publication time is not after now.
Visible(p) ==
    /\ posts[p].is_published
    /\ categories[posts[p].category].is_published
    /\ posts[p].pub_date <= now

Items == {resp.items[i] : i \in 1..Len(resp.items)}

NewestFirst(s) ==
    \A i, j \in 1..Len(s) : i < j => posts[s[i]].pub_date >= posts[s[j]].pub_date

PostDetailUrl(p) == [route |-> "post_detail", post_id |-> p, username |-> ""]

PostChanged(p) == p \notin DOMAIN posts' \/ posts'[p] # posts[p]
CommentChanged(c) == c \notin DOMAIN comments' \/ comments'[c] # comments[c]

\* An update or delete request by someone who is not the record's author
\* leaves the posts and the comments as they were.
DeniedLeavesStore ==
    /\ ( /\ resp'.view \in {"edit_post", "delete_post"}
         /\ resp'.pk \in DOMAIN posts
         /\ posts[resp'.pk].author # resp'.user )
       => posts' = posts /\ comments' = comments
    /\ ( /\ resp'.view \in {"edit_comment", "delete_comment"}
         /\ resp'.ck \in DOMAIN comments
         /\ comments[resp'.ck].author # resp'.user )
       => posts' = posts /\ comments' = comments

\* C1 as stated: a post or a comment is modified or deleted only by a request
\* of its own author, and a request by anyone else leaves the store unchanged.
C1_OnlyOwnAuthor ==
    [][ /\ \A p \in DOMAIN posts : PostChanged(p) => resp'.user = posts[p].author
        /\ \A c \in DOMAIN comments : CommentChanged(c) => resp'.user = comments[c].author
        /\ DeniedLeavesStore ]_vars

\* C1 amended: a post is modified or deleted only by a request of its author;
\* a comment is modified or deleted only by a request of its author, or deleted
\* together with its parent post by a delete request of that post's author;
\* an update or delete request by anyone else leaves the store unchanged.
C1_AuthorOrCascade ==
    [][ /\ \A p \in DOMAIN posts : PostChanged(p) => resp'.user = posts[p].author
        /\ \A c \in DOMAIN comments : CommentChanged(c) =>
              \/ resp'.user = comments[c].author
              \/ /\ c \notin DOMAIN comments'
                 /\ resp'.view = "delete_post"
                 /\ resp'.pk = comments[c].current_post
                 /\ resp'.user = posts[resp'.pk].author
        /\ DeniedLeavesStore ]_vars

\* A delete request for a comment came from someone who is not its author,
\* and the comment is still stored.
C1_Witness ==
    /\ resp.view = "delete_comment"
    /\ resp.ck \in DOMAIN comments
    /\ comments[resp.ck].author # resp.user
    /\ resp.user \in Users

\* C2: an update or delete request on post P, or on a comment under P, by
\* someone who is not the record's author is answered with a redirect to the
\* post-detail route of P, not with an error.
C2_SoftRedirect ==
    /\ ( /\ resp.view \in {"edit_post", "delete_post"}
         /\ resp.pk \in DOMAIN posts
         /\ posts[resp.pk].author # resp.user )
       => resp.status = "redirect" /\ resp.location = PostDetailUrl(resp.pk)
    /\ ( /\ resp.view \in {"edit_comment", "delete_comment"}
         /\ resp.ck \in DOMAIN comments
         /\ comments[resp.ck].author # resp.user
         /\ comments[resp.ck].current_post = resp.pk )
       => resp.status = "redirect" /\ resp.location = PostDetailUrl(resp.pk)

\* C3 as stated: an unpublished post is absent from the index for a viewer
\* who is not its author and present in the index for its author.
C3_AuthorSeesUnpublished ==
    resp.view = "index" =>
        \A p \in DOMAIN posts :
            ~posts[p].is_published => (p \in Items <=> posts[p].author = resp.user)

\* C3 amended: an unpublished post is absent from the index for every viewer,
\* its author included.
C3_UnpublishedAbsent ==
    resp.view = "index" =>
        \A p \in DOMAIN posts : ~posts[p].is_published => p \notin Items

\* The index was served to the author of an unpublished post that passes the
\* other conditions of the listing, and the post is not listed.
C3_Witness ==
    /\ resp.view = "index"
    /\ \E p \in DOMAIN posts :
          /\ ~posts[p].is_published
          /\ posts[p].author = resp.user
          /\ categories[posts[p].category].is_published
          /\ posts[p].pub_date < now
          /\ p \notin Items

\* C4: for a viewer who is not the author, the index lists exactly the posts
\* that satisfy the visibility conjunction (publish_time <= now), newest first.
C4_IndexIsVisiblePosts ==
    resp.view = "index" =>
        /\ NewestFirst(resp.items)
        /\ \A p \in DOMAIN posts :
              posts[p].author # resp.user => (p \in Items <=> Visible(p))

\* C5: the detail of an existing post succeeds for its author; for any other
\* viewer it succeeds exactly when the visibility conjunction holds, and is
\* otherwise the not-found response a nonexistent id gets.
C5_DetailAccess ==
    resp.view = "post_detail" =>
        /\ resp.status \in {"ok", "not_found"}
        /\ resp.status = "not_found" => resp.items = <<>> /\ resp.location = NoLocation
        /\ resp.pk \notin DOMAIN posts => resp.status = "not_found"
        /\ resp.pk \in DOMAIN posts =>
              IF posts[resp.pk].author = resp.user
              THEN resp.status = "ok"
              ELSE resp.status = "ok" <=> Visible(resp.pk)

\* The detail of a post published exactly now was served to a viewer who is
\* not its author.
C5_Witness ==
    /\ resp.view = "post_detail"
    /\ resp.status = "ok"
    /\ resp.pk \in DOMAIN posts
    /\ posts[resp.pk].author # resp.user
    /\ posts[resp.pk].pub_date = now

\* C6: the profile of user X lists all posts of X for X, and for any other
\* viewer exactly the posts of X that satisfy the visibility conjunction;
\* newest first.
C6_ProfileListing ==
    (resp.view = "profile" /\ resp.name \in Users) =>
        /\ resp.status = "ok"
        /\ NewestFirst(resp.items)
        /\ Items = IF resp.user = resp.name
                   THEN {p \in DOMAIN posts : posts[p].author = resp.name}
                   ELSE {p \in DOMAIN posts : posts[p].author = resp.name /\ Visible(p)}

\* C7: a valid comment submission by an authenticated user on an existing post
\* adds exactly one comment, by that user, on that post, last in the post's
\* comments, and changes nothing else; an anonymous attempt on an existing
\* post stores nothing and is redirected to login.
C7_CommentCreated ==
    [][ /\ \A u \in Users, p \in DOMAIN posts, t \in Texts :
              CommentCreateView(u, p, "POST", TRUE, t) =>
                 \E c \in DOMAIN comments' \ DOMAIN comments :
                    /\ DOMAIN comments' = DOMAIN comments \cup {c}
                    /\ comments'[c].author = u
                    /\ comments'[c].current_post = p
                    /\ \A d \in DOMAIN comments : comments'[d] = comments[d]
                    /\ posts' = posts
                    /\ PostComments(p)' = Append(PostComments(p), c)
        /\ \A p \in DOMAIN posts, m \in Methods, v \in BOOLEAN, t \in Texts :
              CommentCreateView(AnonymousUser, p, m, v, t) =>
                 /\ comments' = comments
                 /\ posts' = posts
                 /\ resp'.status = "redirect"
                 /\ resp'.location = LoginUrl ]_vars

\* A comment was added to a post that already had one, by someone who is not
\* the author of the post, and it is the last comment of the post.
C7_Witness ==
    /\ resp.view = "add_comment"
    /\ resp.status = "redirect"
    /\ resp.location = PostDetailUrl(resp.pk)
    /\ resp.ck \in DOMAIN comments
    /\ comments[resp.ck].author # posts[resp.pk].author
    /\ Len(PostComments(resp.pk)) >= 2
    /\ PostComments(resp.pk)[Len(PostComments(resp.pk))] = resp.ck

\* C8: a category listing for a slug of no category and a profile listing for
\* a username of no user are answered not-found, and the store is unchanged.
C8_UnknownIsNotFound ==
    [][ ( \/ resp'.view = "category_posts" /\ resp'.name \notin DOMAIN categories
          \/ resp'.view = "profile" /\ resp'.name \notin Users )
        => resp'.status = "not_found" /\ store' = store ]_vars

\* A category listing was asked for a slug of no category while a post was
\* stored, and the answer is not-found.
C8_Witness ==
    /\ resp.view = "category_posts"
    /\ resp.name \notin DOMAIN categories
    /\ resp.status = "not_found"
    /\ DOMAIN posts # {}

\* C9: every post in the category listing for slug S belongs to the category
\* with slug S and satisfies the visibility conjunction.
C9_OnlyOwnCategory ==
    (resp.view = "category_posts" /\ resp.status = "ok") =>
        \A p \in Items : posts[p].category = resp.name /\ Visible(p)

\* C10: a comment is created on post P only by a user to whom the detail of P
\* is accessible, and a comment edit or delete request on route post id P
\* changes a comment only if that comment's parent post is P.
C10_CommentsRespectPost ==
    [][ /\ (resp'.view = "add_comment" /\ comments' # comments)
             => has_access(resp'.user, resp'.pk)
        /\ (resp'.view \in {"edit_comment", "delete_comment"} /\ comments' # comments)
             => comments[resp'.ck].current_post = resp'.pk ]_vars

====
